---- MODULE Spec2Model ----
(***************************************************************************)
(* A model of RPN_Calc/main.py: the bounded stack MyStack and the postfix  *)
(* evaluator RpnCalculator (parse, eval_tokens, mult).                     *)
(*                                                                         *)
(* Strings of the program are sequences of one-character strings, so that  *)
(* str.split() and int() are computed rather than assumed.  The storage of *)
(* a MyStack is the numpy array of the source, indexed from 0; its int64   *)
(* elements are modelled as unbounded integers, every value of the model   *)
(* being far inside the int64 range, and mult recursing far less deep than *)
(* the interpreter allows.                                                 *)
(***************************************************************************)
EXTENDS Integers, Sequences, FiniteSets, TLC

VARIABLES
    pc,              \* where RpnCalculator.eval is: "idle", "loop", "done", "raised"
    rpn_expression,  \* the argument of eval, a sequence of characters
    tokens,          \* parse(rpn_expression)
    next_token,      \* 1-based index of the token the for loop reaches next
    my_stack,        \* the MyStack local to eval_tokens
    result,          \* <<v>> once eval returned v, <<>> otherwise
    error,           \* the exception eval raised, NoError otherwise
    stk,             \* a MyStack object of a caller, NoStack before construction
    stk_ret,         \* <<v>> when the last call on stk returned v
    stk_err,         \* the exception the last call on stk raised
    mx, my, mret,    \* arguments and value of a direct call of mult
    mdepth,          \* how deep that call of mult recursed
    raised,          \* history: every exception raised so far
    lifo,            \* history: the values pushed on stk and not yet popped
    left             \* history: the MyStack the call of eval before this one left

evars == <<pc, rpn_expression, tokens, next_token, my_stack, result, error>>
svars == <<stk, stk_ret, stk_err>>
mvars == <<mx, my, mret, mdepth>>
vars == <<evars, svars, mvars, raised, lifo, left>>

---------------------------------------------------------------------------
(* Bounds of the model.                                                    *)

\* longest generated expression, in tokens
MaxTokens == 5
\* longest generated expression that also gets irregular whitespace
MaxPadded == 1
\* direct calls of mult take arguments in -MaxOperand..MaxOperand
MaxOperand == 5
\* the caller's stacks have a capacity of 0..MaxStackCap, or MAX_CAPACITY,
\* and are filled to MaxStackCap + 1 values at most
MaxStackCap == 3
\* the values pushed on them are 1..MaxStackValue
MaxStackValue == 2
MaxOver == 2
MaxCallTokens == 3

---------------------------------------------------------------------------
(* Program constants.                                                      *)

MAX_CAPACITY == 100000
DEFAULT_CAPACITY == 10
\* MyStack(1, 1000) in eval_tokens
EVAL_DEFAULT_ITEM == 1
EVAL_CAPACITY == 1000

ADDITION == <<"+">>
SUBTRACTION == <<"-">>
MULTIPLICATION == <<"*">>
FLOOR == <<"/", "/">>

---------------------------------------------------------------------------
(* Exceptions.  kind is the name the specification gives the raise site,   *)
(* type and msg are what the source raises there.                          *)

NoError == [kind |-> "None", type |-> "None", msg |-> ""]

InvalidCapacity(capacity) ==
    [kind |-> "InvalidCapacity", type |-> "ValueError",
     msg |-> "Capacity " \o ToString(capacity) \o " is invalid"]

StackOverflow ==
    [kind |-> "StackOverflow", type |-> "IndexError",
     msg |-> "Push failed - capacity reached"]

\* a mutant of StackUnderflow: the message of push copied into pop
StackUnderflow_copied ==
    [kind |-> "StackUnderflow", type |-> "IndexError",
     msg |-> "Push failed - capacity reached"]

StackUnderflow ==
    [kind |-> "StackUnderflow", type |-> "IndexError",
     msg |-> "Pop failed - stack is empty"]

UnknownOperator ==
    [kind |-> "UnknownOperator", type |-> "ValueError",
     msg |-> "Unknown operator"]

MalformedExpression ==
    [kind |-> "MalformedExpression", type |-> "IndexError",
     msg |-> "Not enough operator"]

---------------------------------------------------------------------------
(* numpy arrays of integers.  An array is kept as its length and its head, *)
(* the elements up to the last one ever written; the elements after the    *)
(* head are the zeros np.zeros put there.                                  *)

np_zeros(n) == [size |-> n, head |-> <<>>]

\* a[k], k counted from 0
array_get(a, k) == IF k < Len(a.head) THEN a.head[k + 1] ELSE 0

\* a after a[k] = v
array_set(a, k, v) ==
    IF k < Len(a.head) THEN [a EXCEPT !.head[k + 1] = v]
    ELSE [a EXCEPT !.head = a.head \o [j \in 1..(k - Len(a.head)) |-> 0] \o <<v>>]

---------------------------------------------------------------------------
(* class MyStack                                                           *)

NoStack == [capacity |-> -1, default_item |-> 0,
            stack |-> np_zeros(0), top_of_stack |-> 0]

\* a mutant of validate_capacity: both comparisons strict
validate_capacity_strict(capacity) == 0 < capacity /\ capacity < MAX_CAPACITY

validate_capacity(capacity) == 0 <= capacity /\ capacity <= MAX_CAPACITY

\* np.zeros([capacity], dtype=int); top_of_stack = 0
clear(self) ==
    [self EXCEPT !.stack = np_zeros(self.capacity), !.top_of_stack = 0]

\* MyStack(default_item, capacity): the object, or the exception raised
MyStack_init(default_item, capacity) ==
    IF ~validate_capacity(capacity)
    THEN [self |-> NoStack, raised |-> InvalidCapacity(capacity)]
    ELSE [self |-> clear([capacity |-> capacity, default_item |-> default_item,
                          stack |-> np_zeros(0), top_of_stack |-> 0]),
          raised |-> NoError]

is_empty(self) == self.top_of_stack = 0

\* a mutant of is_full: full only beyond the capacity
is_full_beyond(self) == self.top_of_stack > self.capacity

is_full(self) == self.top_of_stack = self.capacity

get_capacity(self) == self.capacity

\* a mutant of push: no test of is_full
push_unchecked(self, item_to_push) ==
    [self |-> [self EXCEPT
                  !.stack = array_set(@, self.top_of_stack, item_to_push),
                  !.top_of_stack = @ + 1],
     raised |-> NoError]

push(self, item_to_push) ==
    IF is_full(self)
    THEN [self |-> self, raised |-> StackOverflow]
    ELSE [self |-> [self EXCEPT
                       !.stack = array_set(@, self.top_of_stack, item_to_push),
                       !.top_of_stack = @ + 1],
          raised |-> NoError]

\* a mutant of pop: top_of_stack lowered before the test of is_empty
pop_lowered_first(self) ==
    IF is_empty(self)
    THEN [self |-> [self EXCEPT !.top_of_stack = @ - 1],
          raised |-> StackUnderflow, value |-> 0]
    ELSE [self |-> [self EXCEPT !.top_of_stack = @ - 1],
          raised |-> NoError,
          value |-> array_get(self.stack, self.top_of_stack - 1)]

\* a mutant of pop: the element read before top_of_stack is lowered
pop_read_first(self) ==
    IF is_empty(self)
    THEN [self |-> self, raised |-> StackUnderflow, value |-> 0]
    ELSE [self |-> [self EXCEPT !.top_of_stack = @ - 1],
          raised |-> NoError,
          value |-> array_get(self.stack, self.top_of_stack)]

pop(self) ==
    IF is_empty(self)
    THEN [self |-> self, raised |-> StackUnderflow, value |-> 0]
    ELSE [self |-> [self EXCEPT !.top_of_stack = @ - 1],
          raised |-> NoError,
          value |-> array_get(self.stack, self.top_of_stack - 1)]

---------------------------------------------------------------------------
(* Strings: str.split() and int().                                         *)

\* the characters str.split() takes for whitespace, among those of the model
IsSpace(c) == c \in {" ", "\t", "\n", "\r"}

DigitChars == <<"0", "1", "2", "3", "4", "5", "6", "7", "8", "9">>

IsDigit(c) == \E k \in 1..Len(DigitChars) : DigitChars[k] = c

DigitValue(c) == (CHOOSE k \in 1..Len(DigitChars) : DigitChars[k] = c) - 1

\* the end of the word starting at s[i]: the index of the next whitespace
\* character, Len(s) + 1 when there is none
RECURSIVE word_end(_, _)
word_end(s, i) ==
    IF i > Len(s) \/ IsSpace(s[i]) THEN i ELSE word_end(s, i + 1)

\* the words of s from index i on
RECURSIVE split_from(_, _)
split_from(s, i) ==
    IF i > Len(s) THEN <<>>
    ELSE IF IsSpace(s[i]) THEN split_from(s, i + 1)
    ELSE LET j == word_end(s, i)
         IN  <<SubSeq(s, i, j - 1)>> \o split_from(s, j)

\* the words of s[i..j], s[i..j] starting and ending at the bounds of s or
\* next to whitespace: cut at the first whitespace from the middle on, so
\* that a long string is split without a recursion as deep as it is long
RECURSIVE split_between(_, _, _)
split_between(s, i, j) ==
    IF j - i < 16 THEN split_from(SubSeq(s, i, j), 1)
    ELSE LET m == word_end(s, (i + j) \div 2)
         IN  IF m > j THEN split_from(SubSeq(s, i, j), 1)
             ELSE split_between(s, i, m - 1) \o split_between(s, m, j)

\* rpn_expression.split()
parse(expression) == split_between(expression, 1, Len(expression))

\* the digits of a token after its optional sign
int_digits(token) ==
    IF token # <<>> /\ token[1] \in {"+", "-"} THEN Tail(token) ELSE token

\* whether int(token) returns (TRUE) or raises ValueError (FALSE); the model
\* has no token with an underscore or with whitespace inside
int_ok(token) ==
    LET d == int_digits(token)
    IN  d # <<>> /\ \A k \in 1..Len(d) : IsDigit(d[k])

RECURSIVE digits_value(_)
digits_value(d) ==
    IF d = <<>> THEN 0
    ELSE 10 * digits_value(SubSeq(d, 1, Len(d) - 1)) + DigitValue(d[Len(d)])

\* int(token), for a token with int_ok(token)
int_value(token) ==
    IF token[1] = "-" THEN 0 - digits_value(int_digits(token))
    ELSE digits_value(int_digits(token))

---------------------------------------------------------------------------
(* Arithmetic of eval_tokens.  The operands are numpy int64 scalars (pop   *)
(* returns an element of the numpy array).                                 *)

abs(x) == IF x < 0 THEN 0 - x ELSE x

\* numpy's floor_divide on int64: a zero divisor gives 0 (with a
\* RuntimeWarning, no exception); otherwise the truncated quotient, lowered
\* by one when the signs differ and the division is inexact
floor_divide(left_arg, right_arg) ==
    IF right_arg = 0 THEN 0
    ELSE LET q == abs(left_arg) \div abs(right_arg)
             t == IF (left_arg < 0) = (right_arg < 0) THEN q ELSE 0 - q
         IN  IF (left_arg > 0) # (right_arg > 0)
                /\ abs(left_arg) % abs(right_arg) # 0
             THEN t - 1 ELSE t

\* a mutant of mult: the last branch adds y where it should add x
RECURSIVE mult_copied(_, _)
mult_copied(x, y) ==
    IF y = 0 \/ x = 0 THEN 0
    ELSE IF x < 0 /\ y < 0
    THEN LET absolute_x == abs(x)
             absolute_y == abs(x)
         IN  absolute_y + mult_copied(absolute_y, absolute_x - 1)
    ELSE IF y < 0 /\ x > 0
    THEN y + mult_copied(y, x - 1)
    ELSE y + mult_copied(x, y - 1)

RECURSIVE mult(_, _)
mult(x, y) ==
    IF y = 0 \/ x = 0 THEN 0
    ELSE IF x < 0 /\ y < 0
    THEN LET absolute_x == abs(x)
             absolute_y == abs(x)
         IN  absolute_y + mult(absolute_y, absolute_x - 1)
    ELSE IF y < 0 /\ x > 0
    THEN y + mult(y, x - 1)
    ELSE x + mult(x, y - 1)

\* a mutant of apply_operator: the operands of - and // the wrong way round
apply_operator_swapped(token, left_arg, right_arg) ==
    IF token = ADDITION
    THEN [raised |-> NoError, value |-> left_arg + right_arg]
    ELSE IF token = SUBTRACTION
    THEN [raised |-> NoError, value |-> right_arg - left_arg]
    ELSE IF token = FLOOR
    THEN [raised |-> NoError, value |-> floor_divide(right_arg, left_arg)]
    ELSE IF token = MULTIPLICATION
    THEN [raised |-> NoError, value |-> mult(left_arg, right_arg)]
    ELSE [raised |-> UnknownOperator, value |-> 0]

\* a mutant of apply_operator: no else branch, an unknown token gives 0
apply_operator_lenient(token, left_arg, right_arg) ==
    IF token = ADDITION
    THEN [raised |-> NoError, value |-> left_arg + right_arg]
    ELSE IF token = SUBTRACTION
    THEN [raised |-> NoError, value |-> left_arg - right_arg]
    ELSE IF token = FLOOR
    THEN [raised |-> NoError, value |-> floor_divide(left_arg, right_arg)]
    ELSE IF token = MULTIPLICATION
    THEN [raised |-> NoError, value |-> mult(left_arg, right_arg)]
    ELSE [raised |-> NoError, value |-> 0]

\* a mutant of mult_depth: the last branch recursing on x, as the branch
\* before it does
RECURSIVE mult_depth_on_x(_, _)
mult_depth_on_x(x, y) ==
    IF y = 0 \/ x = 0 THEN 1
    ELSE IF x < 0 /\ y < 0
    THEN LET absolute_x == abs(x)
             absolute_y == abs(x)
         IN  1 + mult_depth_on_x(absolute_y, absolute_x - 1)
    ELSE IF y < 0 /\ x > 0
    THEN 1 + mult_depth_on_x(y, x - 1)
    ELSE 1 + mult_depth_on_x(y, x - 1)

\* the number of nested calls of mult that mult(x, y) makes, itself included
RECURSIVE mult_depth(_, _)
mult_depth(x, y) ==
    IF y = 0 \/ x = 0 THEN 1
    ELSE IF x < 0 /\ y < 0
    THEN LET absolute_x == abs(x)
             absolute_y == abs(x)
         IN  1 + mult_depth(absolute_y, absolute_x - 1)
    ELSE IF y < 0 /\ x > 0
    THEN 1 + mult_depth(y, x - 1)
    ELSE 1 + mult_depth(x, y - 1)

\* the if/elif chain on the operator token: the value to push, or the
\* exception of the else branch
apply_operator(token, left_arg, right_arg) ==
    IF token = ADDITION
    THEN [raised |-> NoError, value |-> left_arg + right_arg]
    ELSE IF token = SUBTRACTION
    THEN [raised |-> NoError, value |-> left_arg - right_arg]
    ELSE IF token = FLOOR
    THEN [raised |-> NoError, value |-> floor_divide(left_arg, right_arg)]
    ELSE IF token = MULTIPLICATION
    THEN [raised |-> NoError, value |-> mult(left_arg, right_arg)]
    ELSE [raised |-> UnknownOperator, value |-> 0]

\* a mutant of eval_operator: the token is looked up before the two pops
eval_operator_checked_first(self, token) ==
    IF token \notin {ADDITION, SUBTRACTION, FLOOR, MULTIPLICATION}
    THEN [self |-> self, raised |-> UnknownOperator]
    ELSE LET r == pop(self)
         IN  IF r.raised # NoError THEN [self |-> r.self, raised |-> r.raised]
             ELSE LET l == pop(r.self)
                  IN  IF l.raised # NoError
                      THEN [self |-> l.self, raised |-> l.raised]
                      ELSE push(l.self,
                                apply_operator(token, l.value, r.value).value)

\* a mutant of eval_operator: the value of the operation is not pushed
eval_operator_no_push(self, token) ==
    LET r == pop(self)
    IN  IF r.raised # NoError THEN [self |-> r.self, raised |-> r.raised]
        ELSE LET l == pop(r.self)
             IN  IF l.raised # NoError THEN [self |-> l.self, raised |-> l.raised]
                 ELSE LET v == apply_operator(token, l.value, r.value)
                      IN  [self |-> l.self, raised |-> v.raised]

\* the except ValueError branch of the loop body: two pops, the dispatch,
\* the push of the value
eval_operator(self, token) ==
    LET r == pop(self)
    IN  IF r.raised # NoError THEN [self |-> r.self, raised |-> r.raised]
        ELSE LET l == pop(r.self)
             IN  IF l.raised # NoError THEN [self |-> l.self, raised |-> l.raised]
                 ELSE LET v == apply_operator(token, l.value, r.value)
                      IN  IF v.raised # NoError
                          THEN [self |-> l.self, raised |-> v.raised]
                          ELSE push(l.self, v.value)

\* a mutant of eval_token: the except clause catches the IndexError of the
\* push as well
eval_token_catch_all(self, token) ==
    IF int_ok(token)
    THEN LET p == push(self, int_value(token))
         IN  IF p.raised # NoError THEN eval_operator(p.self, token) ELSE p
    ELSE eval_operator(self, token)

\* the body of the for loop: int(token) and the push inside the try (an
\* IndexError of that push is not a ValueError and propagates), the except
\* branch when int(token) raises ValueError
eval_token(self, token) ==
    IF int_ok(token) THEN push(self, int_value(token))
    ELSE eval_operator(self, token)

\* mutants of not_enough_operator: the parity of the size, a wrong
\* divisor, and the comparison with 1
not_enough_operator_odd(top_of_stack) == top_of_stack % 2 # 0

not_enough_operator_by_three(top_of_stack) == top_of_stack \div 3 # 0

not_enough_operator_not_one(top_of_stack) == top_of_stack # 1

\* the test after the loop
not_enough_operator(top_of_stack) == top_of_stack \div 2 # 0

\* the if/else after the loop
eval_end(self) ==
    IF not_enough_operator(self.top_of_stack)
    THEN [self |-> self, raised |-> MalformedExpression, value |-> 0]
    ELSE pop(self)

---------------------------------------------------------------------------
(* The expressions eval is called with.                                    *)

\* the tokens generated expressions are made of
TokenAlphabet ==
    { <<"0">>, <<"1">>, <<"-", "2">>,
      ADDITION, SUBTRACTION, FLOOR, MULTIPLICATION, <<"&">> }

TokenLists(n) == UNION { [1..k -> TokenAlphabet] : k \in 0..n }

\* the tokens of ts with sep between them
RECURSIVE Join(_, _)
Join(ts, sep) ==
    IF ts = <<>> THEN <<>>
    ELSE IF Len(ts) = 1 THEN ts[1]
    ELSE ts[1] \o sep \o Join(Tail(ts), sep)

\* ts with whitespace before, after and in runs between the tokens
Padded(ts) == <<"\t", " ">> \o Join(ts, <<" ", "\n">>) \o <<" ">>

T1 == <<"1">>
T15 == <<"1", "5">>
Tkk == <<"k", "k">>

\* the expressions of rpn_calcuator_test
HarnessTokenLists ==
    { <<>>,
      <<T1, T1, <<"&">>>>,
      <<T1, T1>>,
      <<T1, T1, ADDITION, ADDITION>>,
      << <<"R", "a", "n", "d", "o", "m">>, <<"J", "u", "n", "k">> >>,
      <<T1>>,
      <<T1, T1, ADDITION>>,
      <<T15, <<"5">>, ADDITION>>,
      <<T15, <<"-", "5">>, MULTIPLICATION>>,
      <<T1, T1, T1, ADDITION, SUBTRACTION>>,
      <<T15, <<"7">>, T1, T1, ADDITION, SUBTRACTION, FLOOR, <<"3">>,
        MULTIPLICATION, <<"2">>, T1, T1, ADDITION, ADDITION, SUBTRACTION>>,
      << <<"-", "5">>, <<"2", "7">>, MULTIPLICATION>>,
      << <<"-", "5">>, <<"-", "2", "7">>, MULTIPLICATION>>,
      << <<"-", "5">>, <<"0">>, MULTIPLICATION>>,
      << <<"0">>, <<"5">>, MULTIPLICATION>>,
      << <<"0">>, <<"0">>, MULTIPLICATION>>,
      << <<"0">>, Tkk, MULTIPLICATION>> }

HarnessExpressions == { Join(ts, <<" ">>) : ts \in HarnessTokenLists }

Expressions ==
    { Join(ts, <<" ">>) : ts \in TokenLists(MaxTokens) }
    \cup { Padded(ts) : ts \in TokenLists(MaxPadded) }
    \cup HarnessExpressions

Operands == (0 - MaxOperand)..MaxOperand

\* n operands 1
Ones(n) == [k \in 1..n |-> T1]

\* expressions that fill the stack of eval_tokens: EVAL_CAPACITY operands,
\* one less or one more, then up to MaxOver operands and operators; and
\* EVAL_CAPACITY operands added up
DeepTokenLists ==
    { Ones(n) \o ts :
          n \in (EVAL_CAPACITY - 1)..(EVAL_CAPACITY + 1),
          ts \in UNION { [1..k -> {T1, ADDITION}] : k \in 0..MaxOver } }
    \cup { Ones(EVAL_CAPACITY) \o [k \in 1..(EVAL_CAPACITY - 1) |-> ADDITION] }

\* the tokens of ts, of one character each, with a space between them
Spaced(ts) ==
    [k \in 1..(2 * Len(ts) - 1) |->
        IF k % 2 = 1 THEN ts[(k + 1) \div 2][1] ELSE " "]

DeepExpressions == { Spaced(ts) : ts \in DeepTokenLists }

---------------------------------------------------------------------------
(* RpnCalculator.eval, one step at a time.                                 *)

\* eval(rpn_expression): parse, then the first line of eval_tokens
EvalCall(expression) ==
    /\ pc = "idle"
    /\ LET s == MyStack_init(EVAL_DEFAULT_ITEM, EVAL_CAPACITY)
       IN  /\ rpn_expression' = expression
           /\ tokens' = parse(expression)
           /\ next_token' = 1
           /\ my_stack' = s.self
           /\ result' = <<>>
           /\ error' = s.raised
           /\ pc' = IF s.raised # NoError THEN "raised" ELSE "loop"

\* one pass of the for loop
EvalToken ==
    /\ pc = "loop"
    /\ next_token <= Len(tokens)
    /\ LET s == eval_token(my_stack, tokens[next_token])
       IN  /\ my_stack' = s.self
           /\ error' = s.raised
           /\ pc' = IF s.raised # NoError THEN "raised" ELSE "loop"
           /\ next_token' = IF s.raised # NoError THEN next_token
                            ELSE next_token + 1
    /\ UNCHANGED <<rpn_expression, tokens, result>>

\* the loop is over: the test of the stack, and the return
EvalEnd ==
    /\ pc = "loop"
    /\ next_token > Len(tokens)
    /\ LET s == eval_end(my_stack)
       IN  /\ my_stack' = s.self
           /\ error' = s.raised
           /\ result' = IF s.raised # NoError THEN <<>> ELSE <<s.value>>
           /\ pc' = IF s.raised # NoError THEN "raised" ELSE "done"
    /\ UNCHANGED <<rpn_expression, tokens, next_token>>

\* the caller has the value or the exception; the locals of eval are gone
EvalReturn ==
    /\ pc \in {"done", "raised"}
    /\ pc' = "idle"
    /\ rpn_expression' = <<>>
    /\ tokens' = <<>>
    /\ next_token' = 1
    /\ my_stack' = NoStack
    /\ result' = <<>>
    /\ error' = NoError

\* a mutant of EvalAgain: the MyStack of the call before is used again
EvalAgain_shared(expression) ==
    /\ pc \in {"done", "raised"}
    /\ rpn_expression' = expression
    /\ tokens' = parse(expression)
    /\ next_token' = 1
    /\ my_stack' = my_stack
    /\ result' = <<>>
    /\ error' = NoError
    /\ pc' = "loop"

\* eval(rpn_expression) called again, the MyStack of the call before still
\* in memory: parse, then the first line of eval_tokens
EvalAgain(expression) ==
    /\ pc \in {"done", "raised"}
    /\ LET s == MyStack_init(EVAL_DEFAULT_ITEM, EVAL_CAPACITY)
       IN  /\ rpn_expression' = expression
           /\ tokens' = parse(expression)
           /\ next_token' = 1
           /\ my_stack' = s.self
           /\ result' = <<>>
           /\ error' = s.raised
           /\ pc' = IF s.raised # NoError THEN "raised" ELSE "loop"

\* a direct call mult(x, y)
MultCall(x, y) ==
    /\ mx' = x
    /\ my' = y
    /\ mret' = <<mult(x, y)>>
    /\ mdepth' = mult_depth(x, y)

---------------------------------------------------------------------------
(* Calls on a MyStack of the caller.                                       *)

StackNew(default_item, capacity) ==
    LET s == MyStack_init(default_item, capacity)
    IN  /\ stk' = IF s.raised # NoError THEN stk ELSE s.self
        /\ stk_err' = s.raised
        /\ stk_ret' = <<>>

StackClear ==
    /\ stk # NoStack
    /\ stk' = clear(stk)
    /\ stk_err' = NoError
    /\ stk_ret' = <<>>

StackPush(item_to_push) ==
    /\ stk # NoStack
    /\ LET s == push(stk, item_to_push)
       IN  /\ stk' = s.self
           /\ stk_err' = s.raised
           /\ stk_ret' = <<>>

StackPop ==
    /\ stk # NoStack
    /\ LET s == pop(stk)
       IN  /\ stk' = s.self
           /\ stk_err' = s.raised
           /\ stk_ret' = IF s.raised # NoError THEN <<>> ELSE <<s.value>>

\* The last-in-first-out discipline, kept beside the calls on stk: a call
\* that succeeds pushes on, pops from or empties the sequence of values.
NoLifo == [items |-> <<>>, ret |-> <<>>]

LifoPush(v, succeeded) ==
    lifo' = IF succeeded THEN [items |-> Append(lifo.items, v), ret |-> <<>>]
            ELSE [lifo EXCEPT !.ret = <<>>]

LifoPop ==
    lifo' = IF lifo.items = <<>> THEN [lifo EXCEPT !.ret = <<>>]
            ELSE [items |-> SubSeq(lifo.items, 1, Len(lifo.items) - 1),
                  ret |-> <<lifo.items[Len(lifo.items)]>>]

---------------------------------------------------------------------------
(* Specifications.                                                         *)

Init ==
    /\ pc = "idle"
    /\ rpn_expression = <<>>
    /\ tokens = <<>>
    /\ next_token = 1
    /\ my_stack = NoStack
    /\ result = <<>>
    /\ error = NoError
    /\ stk = NoStack
    /\ stk_ret = <<>>
    /\ stk_err = NoError
    /\ mx = 0
    /\ my = 0
    /\ mret = <<>>
    /\ mdepth = 0
    /\ raised = {}
    /\ lifo = NoLifo
    /\ left = NoStack

\* calls of eval, one at a time
Next ==
    \/ /\ pc = "idle"
       /\ \E e \in Expressions : EvalCall(e)
       /\ UNCHANGED <<svars, mvars, raised, lifo, left>>
    \/ EvalToken /\ UNCHANGED <<svars, mvars, raised, lifo, left>>
    \/ EvalEnd /\ UNCHANGED <<svars, mvars, raised, lifo, left>>
    \/ EvalReturn /\ UNCHANGED <<svars, mvars, raised, lifo, left>>

Spec == Init /\ [][Next]_vars

\* calls of eval with expressions that fill the stack
NextDeep ==
    \/ /\ pc = "idle"
       /\ \E e \in DeepExpressions : EvalCall(e)
       /\ UNCHANGED <<svars, mvars, raised, lifo, left>>
    \/ EvalToken /\ UNCHANGED <<svars, mvars, raised, lifo, left>>
    \/ EvalEnd /\ UNCHANGED <<svars, mvars, raised, lifo, left>>
    \/ EvalReturn /\ UNCHANGED <<svars, mvars, raised, lifo, left>>

SpecDeep == Init /\ [][NextDeep]_vars

\* calls of eval one after the other
CallAlphabet == {T1, ADDITION, <<"&">>}

CallExpressions ==
    { Join(ts, <<" ">>) :
          ts \in UNION { [1..k -> CallAlphabet] : k \in 0..MaxCallTokens } }
    \cup HarnessExpressions

NextCalls ==
    \/ /\ pc = "idle"
       /\ \E e \in CallExpressions : EvalCall(e)
       /\ UNCHANGED <<svars, mvars, raised, lifo, left>>
    \/ /\ pc \in {"done", "raised"}
       /\ \E e \in CallExpressions : EvalAgain(e)
       /\ left' = my_stack
       /\ UNCHANGED <<svars, mvars, raised, lifo>>
    \/ EvalToken /\ UNCHANGED <<svars, mvars, raised, lifo, left>>
    \/ EvalEnd /\ UNCHANGED <<svars, mvars, raised, lifo, left>>

SpecCalls == Init /\ [][NextCalls]_vars

\* direct calls of mult
NextMult ==
    \E x \in Operands, y \in Operands :
        MultCall(x, y) /\ UNCHANGED <<evars, svars, raised, lifo, left>>

SpecMult == Init /\ [][NextMult]_vars

\* calls of eval with the expressions of the test, and calls on a stack of
\* the caller, one at a time, every exception recorded
ErrCapacities == {-1, 0, 1, MAX_CAPACITY + 1}

Log(e) == raised' = IF e = NoError THEN raised ELSE raised \cup {e}

NextErrors ==
    \/ /\ pc = "idle"
       /\ \E e \in HarnessExpressions : EvalCall(e)
       /\ Log(error')
       /\ UNCHANGED <<svars, mvars, lifo, left>>
    \/ EvalToken /\ Log(error') /\ UNCHANGED <<svars, mvars, lifo, left>>
    \/ EvalEnd /\ Log(error') /\ UNCHANGED <<svars, mvars, lifo, left>>
    \/ EvalReturn /\ UNCHANGED <<svars, mvars, raised, lifo, left>>
    \/ /\ pc = "idle"
       /\ \E c \in ErrCapacities : StackNew(DEFAULT_CAPACITY, c)
       /\ Log(stk_err')
       /\ UNCHANGED <<evars, mvars, lifo, left>>
    \/ pc = "idle" /\ StackPush(1) /\ Log(stk_err') /\ UNCHANGED <<evars, mvars, lifo, left>>
    \/ pc = "idle" /\ StackPop /\ Log(stk_err') /\ UNCHANGED <<evars, mvars, lifo, left>>
    \/ pc = "idle" /\ StackClear /\ UNCHANGED <<evars, mvars, raised, lifo, left>>

SpecErrors == Init /\ [][NextErrors]_vars

\* calls on a stack of the caller: one construction that succeeds, then
\* pushes, pops and clears in any order
StackCapacities == {-1} \cup 0..MaxStackCap \cup {MAX_CAPACITY, MAX_CAPACITY + 1}

StackValues == 1..MaxStackValue

NextStack ==
    \/ /\ stk = NoStack
       /\ \E c \in StackCapacities : StackNew(EVAL_DEFAULT_ITEM, c)
       /\ lifo' = NoLifo
       /\ UNCHANGED <<evars, mvars, raised, left>>
    \/ /\ stk # NoStack
       /\ stk.top_of_stack <= MaxStackCap
       /\ \E v \in StackValues :
              StackPush(v) /\ LifoPush(v, stk_err' = NoError)
       /\ UNCHANGED <<evars, mvars, raised, left>>
    \/ StackPop /\ LifoPop /\ UNCHANGED <<evars, mvars, raised, left>>
    \/ StackClear /\ lifo' = NoLifo /\ UNCHANGED <<evars, mvars, raised, left>>

SpecStack == Init /\ [][NextStack]_vars

---------------------------------------------------------------------------
(* Postfix notation, by the structure of the expression: a well-formed     *)
(* expression is an integer, or two well-formed expressions followed by an *)
(* operator, and its value is the operator applied to their values.        *)

BinaryOperators == {ADDITION, SUBTRACTION, FLOOR}

RECURSIVE WellFormed(_)
WellFormed(ts) ==
    \/ Len(ts) = 1 /\ int_ok(ts[1])
    \/ /\ Len(ts) >= 3
       /\ ts[Len(ts)] \in BinaryOperators
       /\ \E k \in 1..(Len(ts) - 2) :
              /\ WellFormed(SubSeq(ts, 1, k))
              /\ WellFormed(SubSeq(ts, k + 1, Len(ts) - 1))

\* where the right operand of the last operator starts
OperandSplit(ts) ==
    CHOOSE k \in 1..(Len(ts) - 2) :
        /\ WellFormed(SubSeq(ts, 1, k))
        /\ WellFormed(SubSeq(ts, k + 1, Len(ts) - 1))

\* the greatest integer q with q * b <= a, for b > 0, and with q * b >= a,
\* for b < 0: a / b rounded toward negative infinity
FloorQuotient(a, b) ==
    CHOOSE q \in (0 - abs(a) - 1)..(abs(a) + 1) :
        IF b > 0 THEN q * b <= a /\ a < (q + 1) * b
        ELSE q * b >= a /\ a > (q + 1) * b

RECURSIVE PostfixValue(_)
PostfixValue(ts) ==
    IF Len(ts) = 1 THEN int_value(ts[1])
    ELSE LET k == OperandSplit(ts)
             a == PostfixValue(SubSeq(ts, 1, k))
             b == PostfixValue(SubSeq(ts, k + 1, Len(ts) - 1))
             op == ts[Len(ts)]
         IN  IF op = ADDITION THEN a + b
             ELSE IF op = SUBTRACTION THEN a - b
             ELSE FloorQuotient(a, b)

\* no // of the expression has a right operand of value 0
RECURSIVE ZeroFree(_)
ZeroFree(ts) ==
    \/ Len(ts) = 1
    \/ LET k == OperandSplit(ts)
       IN  /\ ZeroFree(SubSeq(ts, 1, k))
           /\ ZeroFree(SubSeq(ts, k + 1, Len(ts) - 1))
           /\ ts[Len(ts)] = FLOOR =>
                  PostfixValue(SubSeq(ts, k + 1, Len(ts) - 1)) # 0

Returned == pc = "done"
Finished == pc \in {"done", "raised"}
\* the for loop is at a token / is over
AtToken == pc = "loop" /\ next_token <= Len(tokens)
AtEnd == pc = "loop" /\ next_token > Len(tokens)

---------------------------------------------------------------------------
(* Claims.                                                                 *)

\* C1: eval of a well-formed expression over integers, +, - and // with no
\* zero divisor returns the value of the postfix expression, every operator
\* taking the earlier value as its left and the later as its right operand.
C1_PostfixValue ==
    (Finished /\ WellFormed(tokens) /\ ZeroFree(tokens))
        => (Returned /\ result = <<PostfixValue(tokens)>>)

\* "1 1 1 + -" has returned -1
C1_Witness ==
    /\ Returned
    /\ tokens = <<T1, T1, T1, ADDITION, SUBTRACTION>>
    /\ result = <<-1>>

\* C2: eval returns only from a stack of exactly one value, all tokens
\* consumed, and returns that value.
C2_ReturnsSoleValue ==
    [][(pc # "done" /\ pc' = "done")
        => /\ AtEnd
           /\ my_stack.top_of_stack = 1
           /\ result' = <<array_get(my_stack.stack, 0)>>]_vars

\* "1 1 +" has returned 2
C2_Witness ==
    /\ Returned
    /\ tokens = <<T1, T1, ADDITION>>
    /\ result = <<2>>

\* C3 as claimed: with all tokens consumed and a stack of any size other
\* than 1, eval fails with MalformedExpression.
C3_Claimed ==
    [][(AtEnd /\ my_stack.top_of_stack # 1)
        => (pc' = "raised" /\ error' = MalformedExpression)]_vars

\* C3, amended: with all tokens consumed, a stack of two or more values
\* makes eval fail with MalformedExpression, and an empty stack makes it
\* fail with the StackUnderflow of the final pop.
C3_Amended ==
    [][(AtEnd /\ my_stack.top_of_stack # 1)
        => /\ pc' = "raised"
           /\ result' = <<>>
           /\ my_stack.top_of_stack >= 2 => error' = MalformedExpression
           /\ my_stack.top_of_stack = 0 => error' = StackUnderflow]_vars

\* "1 1" has failed with MalformedExpression
C3_Witness ==
    /\ pc = "raised"
    /\ tokens = <<T1, T1>>
    /\ next_token = 3
    /\ error = MalformedExpression

\* C4: an expression with no tokens (empty, or whitespace only) fails with
\* StackUnderflow.
C4_EmptyUnderflows ==
    (Finished /\ \A k \in 1..Len(rpn_expression) : IsSpace(rpn_expression[k]))
        => (pc = "raised" /\ error = StackUnderflow /\ result = <<>>)

\* a non-empty expression of whitespace has failed with StackUnderflow
C4_Witness ==
    /\ pc = "raised"
    /\ Len(rpn_expression) > 0
    /\ \A k \in 1..Len(rpn_expression) : IsSpace(rpn_expression[k])
    /\ error = StackUnderflow

\* C5: a token that is no integer, met with fewer than two values on the
\* stack, fails with StackUnderflow, operator or not.
C5_OperatorUnderflows ==
    [][(AtToken /\ ~int_ok(tokens[next_token]) /\ my_stack.top_of_stack < 2)
        => (pc' = "raised" /\ error' = StackUnderflow)]_vars

\* the token Random of "Random Junk" has failed with StackUnderflow
C5_Witness ==
    /\ pc = "raised"
    /\ Len(tokens) = 2
    /\ tokens[1] = <<"R", "a", "n", "d", "o", "m">>
    /\ next_token = 1
    /\ error = StackUnderflow

\* C6: a token that is neither an integer nor one of + - * //, met with at
\* least two values on the stack, fails with UnknownOperator; the two
\* values are popped, nothing is pushed and nothing is returned.
C6_UnknownOperator ==
    [][(/\ AtToken
        /\ ~int_ok(tokens[next_token])
        /\ tokens[next_token] \notin
               {ADDITION, SUBTRACTION, MULTIPLICATION, FLOOR}
        /\ my_stack.top_of_stack >= 2)
        => /\ pc' = "raised"
           /\ error' = UnknownOperator
           /\ result' = <<>>
           /\ my_stack'.top_of_stack = my_stack.top_of_stack - 2
           /\ my_stack'.stack = my_stack.stack]_vars

\* the & of "1 1 &" has failed with UnknownOperator
C6_Witness ==
    /\ pc = "raised"
    /\ tokens = <<T1, T1, <<"&">>>>
    /\ next_token = 3
    /\ error = UnknownOperator

\* C7 as claimed: eval of "x y *" with x and y negative returns |x| * |y|.
C7_Claimed ==
    (/\ Returned
     /\ Len(tokens) = 3
     /\ tokens[3] = MULTIPLICATION
     /\ int_ok(tokens[1]) /\ int_value(tokens[1]) < 0
     /\ int_ok(tokens[2]) /\ int_value(tokens[2]) < 0)
        => result = <<abs(int_value(tokens[1])) * abs(int_value(tokens[2]))>>

\* C8: mult(x, y) is the product x * y when x and y are not both negative:
\* 0 when one is 0, negative when exactly one is negative.
C8_MultProduct ==
    (mret # <<>> /\ ~(mx < 0 /\ my < 0))
        => /\ mret = <<mx * my>>
           /\ (mx = 0 \/ my = 0) => mret = <<0>>
           /\ ((mx < 0 /\ my > 0) \/ (mx > 0 /\ my < 0)) => mret[1] < 0
           /\ (mx > 0 /\ my > 0) => mret[1] > 0

\* mult(2, -3) has returned -6
C8_Witness == mx = 2 /\ my = -3 /\ mret = <<-6>>

\* C9 as claimed: // with a right operand of 0 fails with a division by
\* zero error, nothing pushed and nothing returned.
C9_Claimed ==
    [][(/\ AtToken
        /\ tokens[next_token] = FLOOR
        /\ my_stack.top_of_stack >= 2
        /\ array_get(my_stack.stack, my_stack.top_of_stack - 1) = 0)
        => /\ pc' = "raised"
           /\ error'.kind = "DivisionByZero"
           /\ result' = <<>>]_vars

Kinds == {"InvalidCapacity", "StackOverflow", "StackUnderflow",
          "UnknownOperator", "MalformedExpression"}

\* C10 as claimed: exceptions of different kinds have different types.
C10_Claimed ==
    \A e1 \in raised, e2 \in raised : e1.kind # e2.kind => e1.type # e2.type

\* C10, amended: exceptions of different kinds have different messages;
\* their types are ValueError for InvalidCapacity and UnknownOperator and
\* IndexError for StackOverflow, StackUnderflow and MalformedExpression, so
\* the type tells kinds apart only across these two groups.
C10_Amended ==
    /\ \A e1 \in raised, e2 \in raised : e1.kind # e2.kind => e1.msg # e2.msg
    /\ \A e \in raised :
           /\ e.kind \in Kinds
           /\ e.type = IF e.kind \in {"InvalidCapacity", "UnknownOperator"}
                       THEN "ValueError" ELSE "IndexError"

\* an exception of every kind has been raised
C10_Witness == {e.kind : e \in raised} = Kinds

\* the elements of the storage of a stack below index n
Elements(self, n) == [k \in 0..(n - 1) |-> array_get(self.stack, k)]

\* C11: push on a full stack (one of capacity 0 too) fails with
\* StackOverflow and changes neither the size nor an element; on a stack
\* that is not full it stores the value at the top and adds 1 to the size.
C11_Push ==
    [][\A v \in StackValues :
        (stk # NoStack /\ StackPush(v))
            => IF stk.top_of_stack = stk.capacity
               THEN /\ stk_err' = StackOverflow
                    /\ stk'.top_of_stack = stk.top_of_stack
                    /\ stk'.stack = stk.stack
                    /\ stk' = stk
               ELSE /\ stk_err' = NoError
                    /\ stk'.top_of_stack = stk.top_of_stack + 1
                    /\ array_get(stk'.stack, stk.top_of_stack) = v
                    /\ Elements(stk', stk.top_of_stack)
                           = Elements(stk, stk.top_of_stack)]_vars

\* a push on a stack of capacity 0 has failed with StackOverflow
C11_Witness ==
    /\ stk # NoStack
    /\ stk.capacity = 0
    /\ stk_err = StackOverflow

\* C12: pop on an empty stack fails with StackUnderflow and changes neither
\* the size nor the storage; on a stack that is not empty it returns the
\* top value and takes 1 from the size.
C12_Pop ==
    [][(stk # NoStack /\ StackPop)
        => IF stk.top_of_stack = 0
           THEN /\ stk_err' = StackUnderflow
                /\ stk_ret' = <<>>
                /\ stk' = stk
           ELSE /\ stk_err' = NoError
                /\ stk_ret' = <<lifo.items[Len(lifo.items)]>>
                /\ stk'.top_of_stack = stk.top_of_stack - 1
                /\ stk'.stack = stk.stack]_vars

\* a pop on an empty stack that had held a value has failed
C12_Witness ==
    /\ stk # NoStack
    /\ stk.top_of_stack = 0
    /\ Len(stk.stack.head) > 0
    /\ stk_err = StackUnderflow

\* C14: constructing a MyStack fails with InvalidCapacity exactly when the
\* capacity is below 0 or above 100000; every other capacity, 0 and 100000
\* included, gives an empty stack of size 0 and of that capacity.
C14_Construct ==
    [][\A c \in StackCapacities :
        (stk = NoStack /\ StackNew(EVAL_DEFAULT_ITEM, c))
            => IF c < 0 \/ c > 100000
               THEN /\ stk_err' = InvalidCapacity(c)
                    /\ stk' = NoStack
               ELSE /\ stk_err' = NoError
                    /\ stk' # NoStack
                    /\ stk'.capacity = c
                    /\ stk'.top_of_stack = 0
                    /\ is_empty(stk')
                    /\ stk'.stack.size = c]_vars

\* a stack of capacity 100000 has been constructed, and is empty
C14_Witness ==
    /\ stk # NoStack
    /\ stk.capacity = 100000
    /\ stk.top_of_stack = 0
    /\ stk.stack.head = <<>>
    /\ stk_err = NoError

\* C16: after any pushes, pops and clears on a constructed stack, failed
\* ones included, 0 <= size <= capacity, the capacity is the one it was
\* constructed with, is_empty() is size = 0 and is_full() is
\* size = capacity.
C16_SizeWithinCapacity ==
    [][stk' # NoStack
        => /\ 0 <= stk'.top_of_stack
           /\ stk'.top_of_stack <= stk'.capacity
           /\ get_capacity(stk') = stk'.stack.size
           /\ stk # NoStack => get_capacity(stk') = get_capacity(stk)
           /\ is_empty(stk') <=> stk'.top_of_stack = 0
           /\ is_full(stk') <=> stk'.top_of_stack = stk'.capacity
           /\ is_full(stk') <=> Len(lifo'.items) = stk'.capacity]_vars

\* a stack of capacity 2 holds the values 1 and 2 and is full
C16_Witness ==
    /\ stk # NoStack
    /\ stk.capacity = 2
    /\ is_full(stk)
    /\ Len(stk.stack.head) = 2
    /\ stk_err = NoError
    /\ lifo.items = <<1, 2>>

\* C17: the stack is last in, first out: the values below top_of_stack are
\* the values pushed and not yet popped, in the order of their pushes, and
\* a pop returns the last of them, never an element at or above
\* top_of_stack.
C17_LastInFirstOut ==
    stk # NoStack
        => /\ stk.top_of_stack = Len(lifo.items)
           /\ \A k \in 1..Len(lifo.items) :
                  array_get(stk.stack, k - 1) = lifo.items[k]
           /\ stk_ret = lifo.ret

\* a pop has returned 1, pushed before a 2 that was popped and left in the
\* storage above it
C17_Witness ==
    /\ stk # NoStack
    /\ stk_ret = <<1>>
    /\ stk.top_of_stack = 0
    /\ stk.stack.head = <<1, 2>>

Min(a, b) == IF a < b THEN a ELSE b
Max(a, b) == IF a < b THEN b ELSE a

\* C18 as claimed: mult(x, y) recurses at most min(|x|, |y|) + 1 deep.
C18_Claimed ==
    mret # <<>> => mdepth <= Min(abs(mx), abs(my)) + 1

\* C18, amended: mult(x, y) terminates and recurses at most
\* max(|x|, |y|) + 1 deep: 1 deep when x or y is 0, |y| + 1 deep when y > 0
\* and |x| + 1 deep when y < 0.
C18_Amended ==
    mret # <<>>
        => /\ mdepth <= Max(abs(mx), abs(my)) + 1
           /\ mdepth = IF mx = 0 \/ my = 0 THEN 1
                       ELSE IF my > 0 THEN my + 1
                       ELSE abs(mx) + 1

\* mult(1, 5) has returned 5 from a recursion 6 deep
C18_Witness == mx = 1 /\ my = 5 /\ mret = <<5>> /\ mdepth = 6

\* how many of the first n tokens of ts are integers
IntCount(ts, n) == Cardinality({k \in 1..n : int_ok(ts[k])})

\* C19: after every token processed without error the size of the stack of
\* eval_tokens is the number of integer tokens processed minus the number
\* of other tokens processed, an integer token having raised it by 1 and an
\* operator token having lowered it by 1; it is at least 1 after a
\* non-empty prefix, and 0 at the end of the loop only for no tokens at all.
C19_SizeCountsTokens ==
    [][pc' = "loop"
        => LET done == next_token' - 1
               size == my_stack'.top_of_stack
           IN  /\ size = IntCount(tokens', done) - (done - IntCount(tokens', done))
               /\ done > 0 => size >= 1
               /\ (done = Len(tokens') /\ size = 0) => tokens' = <<>>
               /\ pc = "loop"
                      => /\ done = next_token
                         /\ size = my_stack.top_of_stack
                                       + (IF int_ok(tokens[next_token])
                                          THEN 1 ELSE -1)]_vars

\* the loop over "15 7 1 1 + - // 3 * 2 1 1 + + -" has processed the // and
\* holds one value
C19_Witness ==
    /\ pc = "loop"
    /\ Len(tokens) = 15
    /\ next_token = 8
    /\ tokens[7] = FLOOR
    /\ my_stack.top_of_stack = 1

\* C13: an integer token met with EVAL_CAPACITY = 1000 values on the stack
\* of eval_tokens makes eval fail with StackOverflow at that push: nothing
\* is popped, no operator is looked up, nothing is returned; the stack
\* never holds more than 1000 values.
C13_OverflowPropagates ==
    [][/\ (pc' = "loop" \/ pc' = "raised" \/ pc' = "done")
           => my_stack'.top_of_stack <= 1000
       /\ (/\ AtToken
           /\ int_ok(tokens[next_token])
           /\ my_stack.top_of_stack = 1000)
           => /\ pc' = "raised"
              /\ error' = StackOverflow
              /\ result' = <<>>
              /\ my_stack' = my_stack]_vars

\* 1001 operands: the push of the last has failed with StackOverflow
C13_Witness ==
    /\ pc = "raised"
    /\ tokens = Ones(1001)
    /\ next_token = 1001
    /\ my_stack.top_of_stack = 1000
    /\ error = StackOverflow

\* eval_tokens(ts) from token k on, on the MyStack self, in one go
RECURSIVE eval_from(_, _, _)
eval_from(self, ts, k) ==
    IF k > Len(ts)
    THEN LET s == eval_end(self)
         IN  [result |-> IF s.raised # NoError THEN <<>> ELSE <<s.value>>,
              error |-> s.raised]
    ELSE LET s == eval_token(self, ts[k])
         IN  IF s.raised # NoError THEN [result |-> <<>>, error |-> s.raised]
             ELSE eval_from(s.self, ts, k + 1)

\* what eval(expression) returns or raises when it is the only call made
eval_alone(expression) ==
    eval_from(MyStack_init(EVAL_DEFAULT_ITEM, EVAL_CAPACITY).self,
              parse(expression), 1)

\* C15: whatever calls of eval came before and whatever they left on their
\* stacks, a call of eval returns the value or raises the error that its
\* expression gives when evaluated alone on a new, empty stack.
C15_CallsIndependent ==
    /\ Finished => [result |-> result, error |-> error] = eval_alone(rpn_expression)
    /\ (pc = "loop" /\ next_token = 1) => my_stack.top_of_stack = 0

\* "+", called after a call that failed and left two values on its stack,
\* has failed with StackUnderflow
C15_Witness ==
    /\ pc = "raised"
    /\ left.top_of_stack = 2
    /\ tokens = <<ADDITION>>
    /\ error = StackUnderflow

====
